---- MODULE Spec2Model ----
(***************************************************************************)
(* Bulk Create Subtags (src/__init__.py): the indentation path enumerator  *)
(* parse_indented_subtags_enumerate_all, the dialog's getData and the      *)
(* browser action add_subtags_to_cards.                                    *)
(*                                                                         *)
(* A Python str is a sequence of one-character strings.  Python lists are  *)
(* sequences; the two 50-slot lists counters and levels are functions on   *)
(* 0..NumLevels-1, as the code indexes them from 0.                        *)
(***************************************************************************)
EXTENDS Integers, Sequences, FiniteSets, TLC

\* ---------------------------------------------------------------- constants
NumLevels == 50
TabWeight == 4
IndentUnit == 4
PadWidth == 2

\* ------------------------------------------------------------------- bounds
MaxLines == 3
ManySiblings == 100
MaxOps == 2

\* --------------------------------------------------------- Python builtins
\* None and "" are both falsy; levels[i] is only read through `if levels[i]`.
None == <<>>

\* the whitespace characters str.strip() and str.split() remove, as far as
\* they occur in the modelled alphabet
Whitespace == {" ", "\t", "\n", "\r", "\f"}

RECURSIVE lstrip(_)
lstrip(s) ==
    IF s # <<>> /\ Head(s) \in Whitespace THEN lstrip(Tail(s)) ELSE s

RECURSIVE rstrip(_)
rstrip(s) ==
    IF s # <<>> /\ s[Len(s)] \in Whitespace
    THEN rstrip(SubSeq(s, 1, Len(s) - 1)) ELSE s

strip(s) == rstrip(lstrip(s))

Digit(d) == <<"0", "1", "2", "3", "4", "5", "6", "7", "8", "9">>[d + 1]

RECURSIVE Decimal(_)
Decimal(n) ==
    IF n < 10 THEN <<Digit(n)>> ELSE Decimal(n \div 10) \o <<Digit(n % 10)>>

RECURSIVE ZeroFill(_, _)
ZeroFill(s, width) ==
    IF Len(s) >= width THEN s ELSE ZeroFill(<<"0">> \o s, width)

\* f"{n:02d}"
Format02d(n) == ZeroFill(Decimal(n), PadWidth)

RECURSIVE join(_, _)
join(sep, parts) ==
    IF parts = <<>> THEN <<>>
    ELSE IF Len(parts) = 1 THEN parts[1]
    ELSE parts[1] \o sep \o join(sep, Tail(parts))

\* --------------------------------------------------------- helper functions
\* mutation: the spaces are left in the content
replace_spaces_kept(s) == s

replace_spaces_with_underscores(s) ==
    [k \in 1..Len(s) |-> IF s[k] = " " THEN "_" ELSE s[k]]

\* mutation: a tab counts as one column
RECURSIVE CountLeadingTabOne(_, _)
CountLeadingTabOne(line, k) ==
    IF k > Len(line) THEN 0
    ELSE IF line[k] \in {" ", "\t"} THEN 1 + CountLeadingTabOne(line, k + 1)
    ELSE 0

\* first loop of parse_indentation_level, from position k on
RECURSIVE CountLeading(_, _)
CountLeading(line, k) ==
    IF k > Len(line) THEN 0
    ELSE IF line[k] = " " THEN 1 + CountLeading(line, k + 1)
    ELSE IF line[k] = "\t" THEN TabWeight + CountLeading(line, k + 1)
    ELSE 0

leading_spaces(line) == CountLeading(line, 1)

\* second loop of parse_indentation_level, from position k on
RECURSIVE new_content(_, _, _, _)
new_content(line, k, actual_removed, to_remove) ==
    IF k > Len(line) THEN <<>>
    ELSE IF line[k] = " " /\ actual_removed < to_remove
         THEN new_content(line, k + 1, actual_removed + 1, to_remove)
    ELSE IF line[k] = "\t" /\ actual_removed + TabWeight <= to_remove
         THEN new_content(line, k + 1, actual_removed + TabWeight, to_remove)
    ELSE <<line[k]>> \o new_content(line, k + 1, actual_removed, to_remove)

parse_indentation_level(line) ==
    [indent_level |-> leading_spaces(line) \div IndentUnit,
     content      |-> strip(new_content(line, 1, 0, leading_spaces(line)))]


\* ------------------------------------- parse_indented_subtags_enumerate_all
InitCounters == [i \in 0..NumLevels - 1 |-> 0]
InitLevels == [i \in 0..NumLevels - 1 |-> None]

\* mutation: no line is skipped
is_blank_never(raw_content) == FALSE

\* `if not raw_content.strip(): continue`
is_blank(raw_content) == strip(raw_content) = <<>>

\* mutation: the deeper counters are not cleared
reset_counters_none(cs, indent_level) == cs

\* for i in range(indent_level + 1, len(counters)): counters[i] = 0
reset_counters(cs, indent_level) ==
    [i \in 0..NumLevels - 1 |-> IF i >= indent_level + 1 THEN 0 ELSE cs[i]]

\* mutation: the deeper stored names are not cleared
reset_levels_none(lv, indent_level) == lv

\* for i in range(indent_level + 1, len(counters)): levels[i] = None
reset_levels(lv, indent_level) ==
    [i \in 0..NumLevels - 1 |-> IF i >= indent_level + 1 THEN None ELSE lv[i]]

\* mutation: the counter is not zero-padded
enumerated_name_unpadded(counter, content) ==
    Decimal(counter) \o <<"_">> \o content

\* f"{counters[indent_level]:02d}_{content}"
enumerated_name(counter, content) == Format02d(counter) \o <<"_">> \o content

\* [levels[i] for i in range(from, indent_level + 1) if levels[i]]
RECURSIVE SegmentsFrom(_, _, _)
SegmentsFrom(lv, from, indent_level) ==
    IF from > indent_level THEN <<>>
    ELSE (IF lv[from] # None THEN <<lv[from]>> ELSE <<>>)
         \o SegmentsFrom(lv, from + 1, indent_level)

\* mutation: only the line's own name is taken
path_segments_leaf(lv, indent_level) == SegmentsFrom(lv, indent_level, indent_level)

path_segments(lv, indent_level) == SegmentsFrom(lv, 0, indent_level)

\* mutation: the segments are joined by a single colon
SepSingle == <<":">>

Sep == <<":", ":">>

\* One iteration of the first loop on the loop state
\* st = [counters, levels, results, raised].  counters[indent_level] with
\* indent_level >= len(counters) raises IndexError; the reset loop before it
\* has an empty range then, so nothing was written.
LoopBody(st, line) ==
    LET p == parse_indentation_level(line)
        indent_level == p.indent_level
        raw_content == p.content
    IN  IF is_blank(raw_content) THEN st
        ELSE IF indent_level >= NumLevels THEN [st EXCEPT !.raised = TRUE]
        ELSE
          LET cs1 == reset_counters(st.counters, indent_level)
              lv1 == reset_levels(st.levels, indent_level)
              cs2 == [cs1 EXCEPT ![indent_level] = @ + 1]
              content == replace_spaces_with_underscores(raw_content)
              name == enumerated_name(cs2[indent_level], content)
              lv2 == [lv1 EXCEPT ![indent_level] = name]
              final_path == join(Sep, path_segments(lv2, indent_level))
          IN  [counters |-> cs2, levels |-> lv2,
               results |-> Append(st.results, final_path), raised |-> FALSE]

\* mutation: every result is taken as new
is_new_always(r, seen_set) == TRUE

\* `if r not in seen`
is_new(r, seen_set) == r \notin seen_set

\* One iteration of the second loop on ds = [seen, final]
DedupBody(ds, r) ==
    IF is_new(r, ds.seen)
    THEN [seen |-> ds.seen \cup {r}, final |-> Append(ds.final, r)]
    ELSE ds

InitLoop ==
    [counters |-> InitCounters, levels |-> InitLevels,
     results |-> <<>>, raised |-> FALSE]

RECURSIVE RunLoop(_, _, _)
RunLoop(st, in, k) ==
    IF k > Len(in) \/ st.raised THEN st
    ELSE RunLoop(LoopBody(st, in[k]), in, k + 1)

RECURSIVE RunDedup(_, _, _)
RunDedup(ds, rs, k) ==
    IF k > Len(rs) THEN ds ELSE RunDedup(DedupBody(ds, rs[k]), rs, k + 1)

\* The call as a function of its argument: whether it raised, and the list
\* it returned when it did not.
parse_indented_subtags_enumerate_all(in) ==
    LET st == RunLoop(InitLoop, in, 1)
    IN  IF st.raised THEN [raised |-> TRUE, value |-> <<>>]
        ELSE [raised |-> FALSE,
              value |-> RunDedup([seen |-> {}, final |-> <<>>],
                                 st.results, 1).final]

\* ------------------------------------------------------------------ inputs
RECURSIVE Rep(_, _)
Rep(c, n) == IF n = 0 THEN <<>> ELSE <<c>> \o Rep(c, n - 1)

\* the lines the bounded inputs are built from: levels 0, 1 and 2 written
\* with spaces, tabs and a mix, blank lines with and without indentation,
\* content with an inner space
LineSet ==
    { <<"a">>,
      <<" ", " ", "a", " ">>,
      <<"b", " ", "c">>,
      <<" ", " ", " ", " ", "a">>,
      <<"\t", "b">>,
      <<" ", " ", "\t", " ", " ", "a">>,
      <<>>,
      <<"\t", " ">> }

MainTagLines ==
    << <<"M", "a", "i", "n", " ", "T", "a", "g">>,
       <<" ", " ", " ", " ", "S", "u", "b", " ", "O", "n", "e">>,
       <<" ", " ", " ", " ", "S", "u", "b", " ", "T", "w", "o">>,
       <<"S", "e", "c", "o", "n", "d", " ", "M", "a", "i", "n">> >>

\* "01_Main", an indented "01_Sub", "01_Main" again
MainSubLines ==
    << <<"0", "1", "_", "M", "a", "i", "n">>,
       <<" ", " ", " ", " ", "0", "1", "_", "S", "u", "b">>,
       <<"0", "1", "_", "M", "a", "i", "n">> >>

\* the deepest level the two lists hold, then one level deeper
DeepLines ==
    << Rep("\t", NumLevels - 1) \o <<"a">>, Rep("\t", NumLevels) \o <<"a">> >>

SiblingLines == [k \in 1..ManySiblings |-> <<"a">>]

Inputs ==
    UNION { [1..n -> LineSet] : n \in 0..MaxLines }
      \cup { MainTagLines, MainSubLines, DeepLines, SiblingLines }

\* ------------------------------------------------------------------- state
VARIABLES
    lines,      \* the argument of the running call
    pc,         \* "loop", "dedup", "done" (returned) or "raised" (IndexError)
    idx,        \* number of lines the first loop has consumed
    counters, levels, results,
    ridx,       \* number of results the second loop has consumed
    seen, final,
    run,        \* 1: the call on the input, 2: the call on its own output
    first       \* what run 1 returned

enum_vars ==
    <<lines, pc, idx, counters, levels, results, ridx, seen, final, run, first>>

VARIABLES
    notes,          \* note id -> the note as stored in the collection
    selected,       \* browser.selectedCards() of the running invocation
    dlg,            \* "idle", or "open" while BulkSubtagDialog.exec() runs
    parentTagEdit,  \* text of the parent tag line edit
    subtagsEdit,    \* plain text of the subtags text edit
    full_tags,      \* what getData returned to add_subtags_to_cards
    outcome,        \* how the last invocation ended, "" while it runs
    ops             \* invocations of add_subtags_to_cards so far

dlg_vars ==
    <<notes, selected, dlg, parentTagEdit, subtagsEdit, full_tags, outcome, ops>>

EnumInit(in) ==
    /\ lines = in
    /\ pc = "loop"
    /\ idx = 0
    /\ counters = InitCounters
    /\ levels = InitLevels
    /\ results = <<>>
    /\ ridx = 0
    /\ seen = {}
    /\ final = <<>>
    /\ run = 1
    /\ first = <<>>

\* one iteration of `for line in lines`
LoopStep ==
    /\ pc = "loop"
    /\ idx < Len(lines)
    /\ LET st == LoopBody([counters |-> counters, levels |-> levels,
                           results |-> results, raised |-> FALSE],
                          lines[idx + 1])
       IN  /\ counters' = st.counters
           /\ levels' = st.levels
           /\ results' = st.results
           /\ pc' = IF st.raised THEN "raised" ELSE "loop"
    /\ idx' = idx + 1
    /\ UNCHANGED <<lines, ridx, seen, final, run, first>>
    /\ UNCHANGED dlg_vars

\* the first loop is exhausted: seen = set(); final = []
LoopExit ==
    /\ pc = "loop"
    /\ idx = Len(lines)
    /\ pc' = "dedup"
    /\ seen' = {}
    /\ final' = <<>>
    /\ ridx' = 0
    /\ UNCHANGED <<lines, idx, counters, levels, results, run, first>>
    /\ UNCHANGED dlg_vars

\* one iteration of `for r in results`
DedupStep ==
    /\ pc = "dedup"
    /\ ridx < Len(results)
    /\ LET ds == DedupBody([seen |-> seen, final |-> final], results[ridx + 1])
       IN  /\ seen' = ds.seen
           /\ final' = ds.final
    /\ ridx' = ridx + 1
    /\ UNCHANGED <<lines, pc, idx, counters, levels, results, run, first>>
    /\ UNCHANGED dlg_vars

\* return final
Return ==
    /\ pc = "dedup"
    /\ ridx = Len(results)
    /\ pc' = "done"
    /\ UNCHANGED <<lines, idx, counters, levels, results, ridx, seen, final,
                   run, first>>
    /\ UNCHANGED dlg_vars

\* the enumerator is called again on what it returned, every path one line
Rerun ==
    /\ pc = "done"
    /\ run = 1
    /\ first' = final
    /\ lines' = final
    /\ run' = 2
    /\ pc' = "loop"
    /\ idx' = 0
    /\ counters' = InitCounters
    /\ levels' = InitLevels
    /\ results' = <<>>
    /\ ridx' = 0
    /\ seen' = {}
    /\ final' = <<>>
    /\ UNCHANGED dlg_vars

\* --------------------------------------------------- BulkSubtagDialog.getData
LineBreaks == {"\n", "\r", "\f"}

\* str.splitlines(): cur is the line being collected from position k on
RECURSIVE SplitFrom(_, _, _)
SplitFrom(text, k, cur) ==
    IF k > Len(text) THEN (IF cur = <<>> THEN <<>> ELSE <<cur>>)
    ELSE IF text[k] = "\r" /\ k < Len(text) /\ text[k + 1] = "\n"
         THEN <<cur>> \o SplitFrom(text, k + 2, <<>>)
    ELSE IF text[k] \in LineBreaks
         THEN <<cur>> \o SplitFrom(text, k + 1, <<>>)
    ELSE SplitFrom(text, k + 1, Append(cur, text[k]))

splitlines(text) == SplitFrom(text, 1, <<>>)

\* mutation: the parent text is not trimmed
parentTag_untrimmed(text) == replace_spaces_with_underscores(text)

\* parentTag = replace_spaces_with_underscores(self.parentTagEdit.text().strip())
parentTag(text) == replace_spaces_with_underscores(strip(text))

\* the loop of getData over enumerated_paths
final_tags(parent, enumerated_paths) ==
    [k \in 1..Len(enumerated_paths) |->
        IF parent # <<>> THEN parent \o Sep \o enumerated_paths[k]
        ELSE enumerated_paths[k]]

\* whether getData raised (the enumerator's IndexError) and what it returned
getData(parent_text, subtags_text) ==
    LET e == parse_indented_subtags_enumerate_all(splitlines(subtags_text))
    IN  IF e.raised THEN [raised |-> TRUE, value |-> <<>>]
        ELSE [raised |-> FALSE,
              value |-> final_tags(parentTag(parent_text), e.value)]

\* ------------------------------------------------------ add_subtags_to_cards
\* str.split(): the maximal runs of non-whitespace characters
RECURSIVE SplitWords(_, _, _)
SplitWords(text, k, cur) ==
    IF k > Len(text) THEN (IF cur = <<>> THEN <<>> ELSE <<cur>>)
    ELSE IF text[k] \in Whitespace
         THEN (IF cur = <<>> THEN <<>> ELSE <<cur>>) \o SplitWords(text, k + 1, <<>>)
    ELSE SplitWords(text, k + 1, Append(cur, text[k]))

split(text) == SplitWords(text, 1, <<>>)

\* `new_tag not in current_tags`
not_in(new_tag, current_tags) ==
    \A i \in 1..Len(current_tags) : current_tags[i] # new_tag

\* for new_tag in full_tags: if new_tag not in current_tags: append
RECURSIVE append_new(_, _, _)
append_new(current_tags, tags, k) ==
    IF k > Len(tags) THEN current_tags
    ELSE append_new(IF not_in(tags[k], current_tags)
                    THEN Append(current_tags, tags[k]) ELSE current_tags,
                    tags, k + 1)

\* A note is [fmt, list, text]: note.tags is the list when fmt = "list" and
\* the string text when fmt = "str".  The body of the loop over card_ids for
\* one note.
attach(note, tags) ==
    IF note.fmt = "list"
    THEN [note EXCEPT !.list = append_new(note.list, tags, 1)]
    ELSE [note EXCEPT !.text = join(<<" ">>, append_new(split(note.text), tags, 1))]

\* the cards of the collection and the note of each: cards 1 and 2 are two
\* cards of note 1
CardNote == <<1, 1, 2>>

\* for cid in card_ids: card.note() reads the stored note, flush() stores it
RECURSIVE attach_all(_, _, _, _)
attach_all(ns, card_ids, tags, k) ==
    IF k > Len(card_ids) THEN ns
    ELSE attach_all([ns EXCEPT ![CardNote[card_ids[k]]] = attach(@, tags)],
                    card_ids, tags, k + 1)

\* ----------------------------------------------------------- dialog inputs
Selections == { <<>>, <<1>>, <<3>>, <<1, 2>>, <<2, 3, 1>> }

ParentTexts == { <<>>, <<" ">>, <<"P">>, <<" ", "P", " ", "Q", " ">> }

SubtagTexts ==
    { <<"a", "\n", " ", " ", " ", " ", "a", " ", "b">>,
      <<"a", "\t", "b">>,
      <<" ", " ", " ", " ", "a", "\n", "a", "\n", "\n">>,
      <<" ", "\n", "\t">>,
      Rep("\t", NumLevels) \o <<"a">> }

ListNote(tags) == [fmt |-> "list", list |-> tags, text |-> <<>>]
StrNote(text) == [fmt |-> "str", list |-> <<>>, text |-> text]

\* the notes of the collection before the add-on is used
NoteConfigs ==
    { << ListNote(<< <<"x">>, <<"0", "1", "_", "a">> >>),
         StrNote(<<"y", " ", " ", "0", "1", "_", "a">>) >>,
      << StrNote(<<"x">>), ListNote(<<>>) >> }

DlgInit(cfg) ==
    /\ notes = cfg
    /\ selected = <<>>
    /\ dlg = "idle"
    /\ parentTagEdit = <<>>
    /\ subtagsEdit = <<>>
    /\ full_tags = <<>>
    /\ outcome = ""
    /\ ops = 0

\* add_subtags_to_cards up to dlg.exec(): nothing selected shows a message
\* and returns, otherwise a fresh dialog opens
Trigger(card_ids) ==
    /\ dlg = "idle"
    /\ ops < MaxOps
    /\ ops' = ops + 1
    /\ selected' = card_ids
    /\ full_tags' = <<>>
    /\ parentTagEdit' = <<>>
    /\ subtagsEdit' = <<>>
    /\ IF card_ids = <<>>
       THEN dlg' = "idle" /\ outcome' = "no_cards"
       ELSE dlg' = "open" /\ outcome' = ""
    /\ UNCHANGED notes
    /\ UNCHANGED enum_vars

\* the user edits the parent tag
EditParent(text) ==
    /\ dlg = "open"
    /\ parentTagEdit' = text
    /\ UNCHANGED <<notes, selected, dlg, subtagsEdit, full_tags, outcome, ops>>
    /\ UNCHANGED enum_vars

\* the user edits the subtag lines
EditSubtags(text) ==
    /\ dlg = "open"
    /\ subtagsEdit' = text
    /\ UNCHANGED <<notes, selected, dlg, parentTagEdit, full_tags, outcome, ops>>
    /\ UNCHANGED enum_vars

\* Cancel: exec() does not return Accepted
Reject ==
    /\ dlg = "open"
    /\ dlg' = "idle"
    /\ outcome' = "cancelled"
    /\ UNCHANGED <<notes, selected, parentTagEdit, subtagsEdit, full_tags, ops>>
    /\ UNCHANGED enum_vars

\* OK: the rest of add_subtags_to_cards
Accept ==
    /\ dlg = "open"
    /\ dlg' = "idle"
    /\ LET d == getData(parentTagEdit, subtagsEdit)
       IN  /\ full_tags' = d.value
           /\ IF d.raised
              THEN outcome' = "raised" /\ notes' = notes
              ELSE IF d.value = <<>>
              THEN outcome' = "no_subtags" /\ notes' = notes
              ELSE /\ outcome' = "added"
                   /\ notes' = attach_all(notes, selected, d.value, 1)
    /\ UNCHANGED <<selected, parentTagEdit, subtagsEdit, ops>>
    /\ UNCHANGED enum_vars

\* ----------------------------------------------------------- specifications
vars == <<enum_vars, dlg_vars>>

\* the enumerator called on every bounded input, then on its own output
Init ==
    /\ \E in \in Inputs : EnumInit(in)
    /\ DlgInit(<< ListNote(<<>>), ListNote(<<>>) >>)

Next == LoopStep \/ LoopExit \/ DedupStep \/ Return \/ Rerun

Spec == Init /\ [][Next]_vars

\* the browser action used up to MaxOps times on a collection of two notes
DialogInit ==
    /\ EnumInit(<<>>)
    /\ \E cfg \in NoteConfigs : DlgInit(cfg)

DialogNext ==
    \/ \E card_ids \in Selections : Trigger(card_ids)
    \/ \E text \in ParentTexts : EditParent(text)
    \/ \E text \in SubtagTexts : EditSubtags(text)
    \/ Reject
    \/ Accept

SpecDialog == DialogInit /\ [][DialogNext]_vars

\* ------------------------------------------------- vocabulary of the claims
IsWhitespaceOnly(line) == \A k \in 1..Len(line) : line[k] \in Whitespace

RECURSIVE WithoutBlank(_)
WithoutBlank(in) ==
    IF in = <<>> THEN <<>>
    ELSE (IF IsWhitespaceOnly(Head(in)) THEN <<>> ELSE <<Head(in)>>)
         \o WithoutBlank(Tail(in))

LevelOf(line) == parse_indentation_level(line).indent_level

\* the non-blank lines among the first n
NonBlankUpTo(n) == {j \in 1..n : ~IsWhitespaceOnly(lines[j])}

Max(S) == CHOOSE m \in S : \A x \in S : x <= m

\* the last of the lines before j that is non-blank and at a level below lvl
\* (0: there is none)
LastBelow(j, lvl) ==
    LET S == {i \in NonBlankUpTo(j - 1) : LevelOf(lines[i]) < lvl}
    IN  IF S = {} THEN 0 ELSE Max(S)

\* the loop has consumed a non-blank line and has not raised
Enumerated == pc # "raised" /\ NonBlankUpTo(idx) # {}

LastLine == Max(NonBlankUpTo(idx))

FirstIndex(rs, x) == CHOOSE k \in 1..Len(rs) : rs[k] = x /\ \A m \in 1..(k - 1) : rs[m] # x

\* ---------------------------------------------------------------------- C1
\* C1: the returned list holds no path twice and holds exactly the computed
\* paths, ordered by the line at which each was first computed.
C1_NoDuplicatesFirstOccurrenceOrder ==
    pc = "done" =>
        /\ \A i, j \in 1..Len(final) : i # j => final[i] # final[j]
        /\ {final[i] : i \in 1..Len(final)} = {results[i] : i \in 1..Len(results)}
        /\ \A i, j \in 1..Len(final) :
              i < j => FirstIndex(results, final[i]) < FirstIndex(results, final[j])

\* a run in which a later line computed an earlier path again
C1_Witness ==
    /\ pc = "done"
    /\ run = 1
    /\ Len(final) >= 2
    /\ \E i, j \in 1..Len(results) : i + 1 < j /\ results[i] = results[j]

\* ---------------------------------------------------------------------- C2
\* C2: the call never raises, whatever the indentation depth, the content or
\* the number of siblings of the lines.
C2_NeverRaises == pc # "raised"

\* ---------------------------------------------------------------------- C3
MainTagPaths ==
    << <<"0", "1", "_", "M", "a", "i", "n", "_", "T", "a", "g", ":", ":",
         "0", "1", "_", "S", "u", "b", "_", "O", "n", "e">>,
       <<"0", "1", "_", "M", "a", "i", "n", "_", "T", "a", "g", ":", ":",
         "0", "2", "_", "S", "u", "b", "_", "T", "w", "o">>,
       <<"0", "2", "_", "S", "e", "c", "o", "n", "d", "_", "M", "a", "i", "n">> >>

\* C3 as stated: on ["Main Tag", "    Sub One", "    Sub Two", "Second Main"]
\* the levels are [0,1,1,0] and the call returns exactly the three paths of
\* MainTagPaths.
C3_ThreePaths ==
    (run = 1 /\ lines = MainTagLines) =>
        /\ [k \in 1..4 |-> LevelOf(lines[k])] = <<0, 1, 1, 0>>
        /\ pc # "raised"
        /\ pc = "done" => final = MainTagPaths

\* C3 amended: on that input the levels are [0,1,1,0] and the call returns
\* four paths, "01_Main_Tag" of the first line and then the three paths of
\* MainTagPaths.
C3_MainTagScenario ==
    (run = 1 /\ lines = MainTagLines) =>
        /\ [k \in 1..4 |-> LevelOf(lines[k])] = <<0, 1, 1, 0>>
        /\ pc # "raised"
        /\ pc = "done" =>
              final = << <<"0", "1", "_", "M", "a", "i", "n", "_", "T", "a", "g">> >>
                        \o MainTagPaths

C3_Witness == run = 1 /\ lines = MainTagLines /\ pc = "done" /\ Len(final) = 4

\* ---------------------------------------------------------------------- C4
\* C4: whitespace-only lines have no effect: after any number of lines the
\* counters, stored names and computed paths are those of the same lines
\* with the whitespace-only ones removed, and so is what the call returns.
C4_BlankLinesHaveNoEffect ==
    /\ pc \in {"loop", "dedup", "done"} =>
          LET st == RunLoop(InitLoop, WithoutBlank(SubSeq(lines, 1, idx)), 1)
          IN  /\ ~st.raised
              /\ counters = st.counters
              /\ levels = st.levels
              /\ results = st.results
    /\ pc = "done" =>
          parse_indented_subtags_enumerate_all(WithoutBlank(lines))
            = [raised |-> FALSE, value |-> final]
    /\ pc = "raised" =>
          parse_indented_subtags_enumerate_all(WithoutBlank(lines)).raised

\* an indented whitespace-only line between a parent and its child
C4_Witness ==
    /\ pc = "done"
    /\ run = 1
    /\ Len(lines) = 3
    /\ ~IsWhitespaceOnly(lines[1])
    /\ lines[2] # <<>> /\ IsWhitespaceOnly(lines[2])
    /\ LevelOf(lines[3]) = 1 /\ ~IsWhitespaceOnly(lines[3])
    /\ Len(final) = 2

\* ---------------------------------------------------------------------- C5
\* the number the claim gives line j at level lvl: 1 plus the earlier
\* non-blank lines at lvl that come after the last earlier shallower line
SiblingNumber(j, lvl) ==
    1 + Cardinality({i \in NonBlankUpTo(j - 1) :
                        LevelOf(lines[i]) = lvl /\ i > LastBelow(j, lvl)})

\* C5: right after a non-blank line at level L is processed, counters[L] and
\* the number in its segment name are 1 plus the count of earlier lines at L
\* since the last shallower line, and every deeper level has counter 0 and
\* no stored name.
C5_NumberingRestartsUnderNewParent ==
    (Enumerated /\ pc = "loop") =>
        LET L == LevelOf(lines[LastLine])
            n == SiblingNumber(LastLine, L)
        IN  /\ L < NumLevels
            /\ counters[L] = n
            /\ LET d == (IF n < 10 THEN <<"0">> ELSE <<>>) \o Decimal(n)
               IN  SubSeq(levels[L], 1, Len(d) + 1) = d \o <<"_">>
            /\ \A i \in (L + 1)..(NumLevels - 1) :
                  counters[i] = 0 /\ levels[i] = None

\* a line that is numbered 1 although an earlier line at its level exists,
\* under another parent
C5_Witness ==
    /\ pc = "loop"
    /\ run = 1
    /\ NonBlankUpTo(idx) # {}
    /\ idx = LastLine
    /\ LET L == LevelOf(lines[idx])
       IN  /\ L >= 1
           /\ counters[L] = 1
           /\ \E i \in NonBlankUpTo(idx - 1) : LevelOf(lines[i]) = L

\* ---------------------------------------------------------------------- C6
\* length of the leading run of space and tab characters
LeadingRun(line) ==
    Max({n \in 0..Len(line) : \A k \in 1..n : line[k] \in {" ", "\t"}})

CountIn(line, n, c) == Cardinality({k \in 1..n : line[k] = c})

\* the line with the tab at position t replaced by four spaces
TabToSpaces(line, t) ==
    SubSeq(line, 1, t - 1) \o <<" ", " ", " ", " ">> \o SubSeq(line, t + 1, Len(line))

\* what the running call has produced once it is over
Outcome ==
    [raised |-> pc = "raised", value |-> IF pc = "done" THEN final ELSE <<>>]

\* C6: a line's level is floor((s + 4t) / 4) for s spaces and t tabs in its
\* leading run; replacing a leading tab by four spaces keeps the line's level
\* and content and the call's result; 1 to 3 spaces put before a line whose
\* leading weight is a multiple of 4 keep its level.
C6_TabEqualsFourSpaces ==
    \A k \in 1..Len(lines) :
        LET line == lines[k]
            r == LeadingRun(line)
            w == CountIn(line, r, " ") + 4 * CountIn(line, r, "\t")
        IN  /\ LevelOf(line) = w \div 4
            /\ \A t \in 1..r :
                  line[t] = "\t" =>
                      /\ parse_indentation_level(TabToSpaces(line, t))
                           = parse_indentation_level(line)
                      /\ pc \in {"done", "raised"} =>
                            parse_indented_subtags_enumerate_all(
                                [lines EXCEPT ![k] = TabToSpaces(line, t)]) = Outcome
            /\ \A e \in 1..3 :
                  w % 4 = 0 => LevelOf(Rep(" ", e) \o line) = LevelOf(line)

\* a returned list whose input has a line indented by spaces around a tab
C6_Witness ==
    /\ pc = "done"
    /\ run = 1
    /\ final # <<>>
    /\ \E k \in 1..Len(lines) :
          /\ LeadingRun(lines[k]) >= 3
          /\ CountIn(lines[k], LeadingRun(lines[k]), "\t") = 1
          /\ LevelOf(lines[k]) = 2

\* ---------------------------------------------------------------------- C7
\* the last non-blank line before j at level lvl (0: there is none)
LastAt(j, lvl) ==
    LET S == {i \in NonBlankUpTo(j - 1) : LevelOf(lines[i]) = lvl}
    IN  IF S = {} THEN 0 ELSE Max(S)

\* line j, at level lvl >= 1, skips its parent level: no line at level
\* lvl - 1 since the last line shallower than lvl - 1
SkipsParent(j, lvl) == lvl >= 1 /\ LastAt(j, lvl - 1) <= LastBelow(j, lvl - 1)

\* the segment name line j was given
SegmentOf(j) ==
    RunLoop(InitLoop, SubSeq(lines, 1, j), 1).levels[LevelOf(lines[j])]

\* C7 as stated: a line that skips its parent level takes, at that level,
\* the segment of the most recent earlier line at that level anywhere in the
\* input, and has no segment there only if there is no such line.
C7_InheritsLastSeenSegment ==
    (Enumerated /\ pc = "loop") =>
        LET L == LevelOf(lines[LastLine])
        IN  SkipsParent(LastLine, L) =>
                levels[L - 1] = IF LastAt(LastLine, L - 1) = 0 THEN None
                                ELSE SegmentOf(LastAt(LastLine, L - 1))

\* C7 amended: a line that skips its parent level has no segment at that
\* level, whether or not a line at that level occurred earlier: its path is
\* the stored names of the levels above the parent level and its own name.
C7_SkippedParentOmitted ==
    (Enumerated /\ pc = "loop") =>
        LET L == LevelOf(lines[LastLine])
        IN  SkipsParent(LastLine, L) =>
                /\ levels[L - 1] = None
                /\ results[Len(results)]
                     = join(Sep, SegmentsFrom(levels, 0, L - 2) \o <<levels[L]>>)

\* a level-2 line right after a level-0 line, a level-1 line before both
C7_Witness ==
    /\ pc = "loop"
    /\ run = 1
    /\ NonBlankUpTo(idx) # {}
    /\ idx = LastLine
    /\ LevelOf(lines[idx]) = 2
    /\ SkipsParent(idx, 2)
    /\ LastAt(idx, 1) # 0
    /\ levels[0] # None

\* ---------------------------------------------------------------------- C8
Digits == {"0", "1", "2", "3", "4", "5", "6", "7", "8", "9"}

RECURSIVE DropNumber(_)
DropNumber(path) ==
    IF path # <<>> /\ Head(path) \in Digits THEN DropNumber(Tail(path)) ELSE path

TwoDigits(k) == (IF k < 10 THEN <<"0">> ELSE <<>>) \o Decimal(k)

\* C8 as stated: the call on its own output returns as many paths, the k-th
\* being the k-th path with its leading number replaced by k.
C8_RerunOnlyRenumbers ==
    (run = 2 /\ pc # "loop" /\ pc # "dedup") =>
        /\ pc = "done"
        /\ Len(final) = Len(first)
        /\ \A k \in 1..Len(first) :
              final[k] = TwoDigits(k) \o DropNumber(first[k])

\* C8 amended: the call on its own output returns as many paths, the k-th
\* being the number k, an underscore and the whole k-th path, its own
\* numbers included.
C8_RerunPrefixesNumber ==
    (run = 2 /\ pc # "loop" /\ pc # "dedup") =>
        /\ pc = "done"
        /\ Len(final) = Len(first)
        /\ \A k \in 1..Len(first) :
              final[k] = TwoDigits(k) \o <<"_">> \o first[k]

\* a second run over at least two paths, one of them nested
C8_Witness ==
    /\ run = 2
    /\ pc = "done"
    /\ Len(first) >= 2
    /\ \E k \in 1..Len(first) : \E i \in 1..(Len(first[k]) - 1) :
          first[k][i] = ":" /\ first[k][i + 1] = ":"

\* ---------------------------------------------------------------------- C9
Min(S) == CHOOSE m \in S : \A x \in S : m <= x

\* the parent text from its first to its last non-whitespace character,
\* spaces as underscores; empty for an empty or whitespace-only text
TrimmedParent ==
    LET nz == {k \in 1..Len(parentTagEdit) : parentTagEdit[k] \notin Whitespace}
    IN  IF nz = {} THEN <<>>
        ELSE [i \in 1..(Max(nz) - Min(nz) + 1) |->
                 LET c == parentTagEdit[Min(nz) + i - 1]
                 IN  IF c = " " THEN "_" ELSE c]

\* C9: what getData returns has the length and order of the enumerator's
\* output; every tag is parent + "::" + path when the trimmed parent is not
\* empty and the bare path when it is; the list is duplicate-free.
C9_ParentPrefixUniform ==
    outcome \in {"added", "no_subtags"} =>
        LET e == parse_indented_subtags_enumerate_all(splitlines(subtagsEdit))
        IN  /\ ~e.raised
            /\ Len(full_tags) = Len(e.value)
            /\ \A k \in 1..Len(e.value) :
                  full_tags[k] = IF TrimmedParent # <<>>
                                 THEN TrimmedParent \o <<":", ":">> \o e.value[k]
                                 ELSE e.value[k]
            /\ \A i, j \in 1..Len(full_tags) : i # j => full_tags[i] # full_tags[j]

\* two tags returned under a parent typed with outer and inner spaces
C9_Witness ==
    /\ outcome = "added"
    /\ Len(full_tags) >= 2
    /\ Len(parentTagEdit) > Len(TrimmedParent)
    /\ \E k \in 1..Len(TrimmedParent) : TrimmedParent[k] = "_"

\* --------------------------------------------------------------------- C10
\* the tags a note holds
TagsOf(note) == IF note.fmt = "list" THEN note.list ELSE split(note.text)

Holds(note, tag) == \E i \in 1..Len(TagsOf(note)) : TagsOf(note)[i] = tag

\* the tags of the list that the note does not hold, in the list's order
RECURSIVE Missing(_, _)
Missing(tags, note) ==
    IF tags = <<>> THEN <<>>
    ELSE (IF Holds(note, Head(tags)) THEN <<>> ELSE <<Head(tags)>>)
         \o Missing(Tail(tags), note)

\* C10: an accepted invocation with a non-empty tag list leaves the note of
\* every selected card with its previous tags in their order followed by the
\* new tags it did not hold, each once, and leaves the other notes alone;
\* every other step leaves all notes alone.
C10_AttachAddsOnlyMissingTags ==
    [][ IF dlg = "open" /\ outcome' = "added"
        THEN \A n \in DOMAIN notes :
                IF \E k \in 1..Len(selected) : CardNote[selected[k]] = n
                THEN TagsOf(notes'[n]) = TagsOf(notes[n]) \o Missing(full_tags', notes[n])
                ELSE notes'[n] = notes[n]
        ELSE notes' = notes ]_vars

\* --------------------------------------------------------------------- C11
\* C11 as stated: on "01_Main", "    01_Sub", "01_Main" the call returns
\* exactly two paths, the third line computing the path of the first and
\* being dropped.
C11_SecondMainDropped ==
    (run = 1 /\ lines = MainSubLines /\ pc = "done") =>
        /\ Len(final) = 2
        /\ results[3] = results[1]

\* C11 amended: on that input the call returns three paths, "01_01_Main",
\* "01_01_Main::01_01_Sub" and "02_01_Main": the third line is numbered 02,
\* computes a path of its own and nothing is dropped.
C11_SecondMainNumberedTwo ==
    (run = 1 /\ lines = MainSubLines) =>
        /\ pc # "raised"
        /\ pc = "done" =>
              /\ final =
                   << <<"0", "1", "_", "0", "1", "_", "M", "a", "i", "n">>,
                      <<"0", "1", "_", "0", "1", "_", "M", "a", "i", "n", ":", ":",
                        "0", "1", "_", "0", "1", "_", "S", "u", "b">>,
                      <<"0", "2", "_", "0", "1", "_", "M", "a", "i", "n">> >>
              /\ results[3] # results[1]
              /\ final = results

C11_Witness == run = 1 /\ lines = MainSubLines /\ pc = "done" /\ Len(final) = 3

\* --------------------------------------------------------------------- C12
\* the last non-blank line before j (0: there is none)
PrevLine(j) ==
    IF NonBlankUpTo(j - 1) = {} THEN 0 ELSE Max(NonBlankUpTo(j - 1))

\* the non-blank lines among the first n start at level 0, go at most one
\* level deeper at a time and stay below NumLevels
WellNested(n) ==
    \A j \in NonBlankUpTo(n) :
        /\ LevelOf(lines[j]) < NumLevels
        /\ IF PrevLine(j) = 0 THEN LevelOf(lines[j]) = 0
           ELSE LevelOf(lines[j]) <= LevelOf(lines[PrevLine(j)]) + 1

\* where the path of non-blank line j stands in results
ResultIndex(j) == Cardinality(NonBlankUpTo(j))

\* a level-1 line before any level-0 line, both with content "a"
NotNestedLines == << <<" ", " ", " ", " ", "a">>, <<"a">> >>

\* C12: as long as the lines consumed are well nested, every non-blank line
\* has computed a path of its own, the last one has a stored name at each of
\* its L+1 levels and its path is its parent's path, "::" and its own name;
\* the call then returns exactly the computed paths in line order.  On the
\* two lines of NotNestedLines, which are not well nested, both lines compute
\* the same path and one path is returned.
C12_WellNestedPathsDistinct ==
    /\ WellNested(idx) =>
          /\ pc # "raised"
          /\ Len(results) = Cardinality(NonBlankUpTo(idx))
          /\ \A i, j \in 1..Len(results) : i # j => results[i] # results[j]
          /\ NonBlankUpTo(idx) # {} =>
                LET L == LevelOf(lines[LastLine])
                IN  /\ \A i \in 0..L : levels[i] # None
                    /\ L >= 1 =>
                          results[Len(results)]
                            = results[ResultIndex(LastAt(LastLine, L - 1))]
                                \o <<":", ":">> \o levels[L]
    /\ (pc = "done" /\ WellNested(Len(lines))) => final = results
    /\ LET e == parse_indented_subtags_enumerate_all(NotNestedLines)
       IN  ~e.raised /\ Len(e.value) = 1

\* a returned list for three lines at levels 0, 1 and 2
C12_Witness ==
    /\ pc = "done"
    /\ run = 1
    /\ Len(lines) = 3
    /\ WellNested(3)
    /\ Len(final) = 3
    /\ LevelOf(lines[3]) = 2

====
